---- MODULE Spec2Model ----
(***************************************************************************)
(* A model of liblight/lights.c, the lights HAL module of the msm8610      *)
(* device tree: open_lights / close_lights, the three setters              *)
(* (set_light_backlight, set_light_battery, set_light_notifications), the  *)
(* LED arbitration (handle_speaker_battery_locked) and the two sysfs write *)
(* helpers (write_int, write_str), called by host threads through the      *)
(* device handles open_lights hands out.                                   *)
(***************************************************************************)
EXTENDS Integers, Sequences, FiniteSets, TLC

(* ------------------------------ bounds -------------------------------- *)

\* number of host threads calling into the module
NThreads == 2

Threads == 1..NThreads

(* ------------------------ constants of the code ----------------------- *)

\* <hardware/lights.h> flash modes, as used by the switch at lights.c:119
LIGHT_FLASH_NONE == 0
LIGHT_FLASH_TIMED == 1
LIGHT_FLASH_HARDWARE == 2

\* <errno.h> codes: the one open_lights returns, and the ones open(2) and
\* write(2) leave in errno when they fail on a sysfs node
EINVAL == 22
ENOENT == 2
EACCES == 13
EIO == 5

OpenErrnos == {ENOENT, EACCES}
WriteErrnos == {EIO}

\* the ramp set_speaker_light_locked gives a timed flash
RAMP_TIMED == 300

LCD_FILE == "/sys/class/leds/lcd-backlight/brightness"
RGB_CONTROL_FILE == "/sys/class/leds/rgb/control"

\* <hardware/lights.h> logical light names
LIGHT_ID_BACKLIGHT == "backlight"
LIGHT_ID_BATTERY == "battery"
LIGHT_ID_NOTIFICATIONS == "notifications"

\* the fixed patterns of handle_speaker_battery_locked
BATTERY_PATTERN == "FFFFFF 1 0 0 0"
OFF_PATTERN == "000000 0 0 0 0"

NoThread == 0
NULL == "NULL"

(* ------------------------------ inputs --------------------------------- *)

\* a 32-bit ARGB colour, kept as its four bytes (0xAARRGGBB)
ARGB(a, r, g, b) == [a |-> a, r |-> r, g |-> g, b |-> b]

\* struct light_state_t (the fields the module reads)
LightState(c, m, on, off) ==
    [color |-> c, flashMode |-> m, flashOnMS |-> on, flashOffMS |-> off]

\* a static struct light_state_t before any store: all zero
ZeroState == LightState(ARGB(0, 0, 0, 0), 0, 0, 0)

\* states handed to set_light_battery / set_light_notifications:
\*   alpha only, timed      (RGB channels zero, flash fields set)
\*   opaque white, timed 1/0
\*   red, no flash, durations set
\*   green, hardware flash, durations set
LedStates ==
    { LightState(ARGB(255, 0, 0, 0), LIGHT_FLASH_TIMED, 500, 200),
      LightState(ARGB(255, 255, 255, 255), LIGHT_FLASH_TIMED, 1, 0),
      LightState(ARGB(0, 255, 0, 0), LIGHT_FLASH_NONE, 500, 200),
      LightState(ARGB(0, 0, 255, 0), LIGHT_FLASH_HARDWARE, 500, 200) }

\* states handed to set_light_backlight: 0x00000000, 0x00FF0000, 0xFFFFFFFF
BacklightStates ==
    { LightState(ARGB(0, 0, 0, 0), LIGHT_FLASH_NONE, 0, 0),
      LightState(ARGB(0, 255, 0, 0), LIGHT_FLASH_NONE, 0, 0),
      LightState(ARGB(255, 255, 255, 255), LIGHT_FLASH_NONE, 0, 0) }

\* names handed to open_lights
Names == { LIGHT_ID_BACKLIGHT, LIGHT_ID_BATTERY, LIGHT_ID_NOTIFICATIONS,
           "buttons", "Backlight" }

(* --------------------------- pure functions ---------------------------- *)

\* color & 0x00ffffff: the alpha byte dropped
Mask24(c) == c.r * 65536 + c.g * 256 + c.b

\* (x >> n) & 0xff
Byte(x, n) == (x \div (2 ^ n)) % 256

\* is_lit without the mask: the alpha byte counts
is_lit_unmasked(state) ==
    IF state.color.a # 0 THEN 1 ELSE Mask24(state.color)

\* is_lit: the int it returns, non-zero meaning true
is_lit(state) == Mask24(state.color)

\* the luminance rounded to nearest instead of truncated
rounded_brightness(state) ==
    LET color == Mask24(state.color)
    IN  (77 * Byte(color, 16) + 150 * Byte(color, 8) + 29 * Byte(color, 0)
            + 128) \div 256

rgb_to_brightness(state) ==
    LET color == Mask24(state.color)
    IN  (77 * Byte(color, 16) + 150 * Byte(color, 8) + 29 * Byte(color, 0))
            \div 256

\* printf's conversions, digit by digit
DecDigit == <<"0", "1", "2", "3", "4", "5", "6", "7", "8", "9">>
HexDigit == <<"0", "1", "2", "3", "4", "5", "6", "7", "8", "9",
              "a", "b", "c", "d", "e", "f">>

RECURSIVE Digits(_, _, _)
Digits(n, base, digit) ==
    IF n < base THEN digit[n + 1]
    ELSE Digits(n \div base, base, digit) \o digit[(n % base) + 1]

\* "%d"
FmtD(n) == IF n < 0 THEN "-" \o Digits(-n, 10, DecDigit)
           ELSE Digits(n, 10, DecDigit)

RECURSIVE PadLeft(_, _)
PadLeft(s, width) == IF Len(s) >= width THEN s ELSE PadLeft(" " \o s, width)

\* "%6x"
Fmt6x(n) == PadLeft(Digits(n, 16, HexDigit), 6)

\* set_speaker_light_locked taking the durations whatever the flash mode
blink_pattern_durations_kept(state) ==
    LET timed == state.flashMode = LIGHT_FLASH_TIMED
        ramp == IF timed THEN RAMP_TIMED ELSE 0
        colorRGB == IF Mask24(state.color) # 0 THEN 16777215 ELSE 0
    IN  Fmt6x(colorRGB) \o " " \o FmtD(state.flashOnMS) \o " "
            \o FmtD(state.flashOffMS) \o " " \o FmtD(ramp) \o " "
            \o FmtD(ramp)

\* the blink pattern set_speaker_light_locked builds for a state
blink_pattern(state) ==
    LET timed == state.flashMode = LIGHT_FLASH_TIMED
        onMS == IF timed THEN state.flashOnMS ELSE 0
        offMS == IF timed THEN state.flashOffMS ELSE 0
        ramp == IF timed THEN RAMP_TIMED ELSE 0
        colorRGB == IF Mask24(state.color) # 0 THEN 16777215 ELSE 0
    IN  Fmt6x(colorRGB) \o " " \o FmtD(onMS) \o " " \o FmtD(offMS)
            \o " " \o FmtD(ramp) \o " " \o FmtD(ramp)

\* handle_speaker_battery_locked with the battery state looked at first
battery_first(notification, battery) ==
    IF is_lit(battery) # 0 THEN BATTERY_PATTERN
    ELSE IF is_lit(notification) # 0 THEN blink_pattern(notification)
    ELSE OFF_PATTERN

\* the string handle_speaker_battery_locked passes to write_str, given the
\* two snapshots
handle_speaker_battery_locked(notification, battery) ==
    IF is_lit(notification) # 0 THEN blink_pattern(notification)
    ELSE IF is_lit(battery) # 0 THEN BATTERY_PATTERN
    ELSE OFF_PATTERN

(* ------------------------------- state --------------------------------- *)

VARIABLES
    pc,             \* where each host thread is
    device,         \* the host's struct hw_device_t* for each light name: the setter the handle is bound to, or NULL
    heap,           \* number of live malloc'ed handles
    g_init,         \* pthread_once_t: 0 not run, 1 running, 2 done
    g_lock,         \* the thread holding the mutex, or NoThread
    g_notification, \* the notification snapshot
    g_battery,      \* the battery snapshot
    warned_int,     \* write_int's static already_warned
    warned_str,     \* write_str's static already_warned
    elog,           \* number of ALOGE lines emitted, per control path
    rgb_issued,     \* the last string passed to write_str, and the setter that passed it
    name,           \* open_lights' name argument
    set_light,      \* open_lights' local set_light
    setter,         \* the setter a thread is in, or NULL
    arg,            \* the setter's state argument
    brightness,     \* set_light_backlight's local brightness
    value,          \* the string passed to write_str
    fd,             \* the path a thread holds a descriptor on, or NULL
    buffer,         \* the write helper's buffer, once handed to write(2)
    err,            \* what the write helper returned
    ret             \* the value the most recent call returned to the host

vars == <<pc, device, heap, g_init, g_lock, g_notification, g_battery,
          warned_int, warned_str, elog, rgb_issued, name, set_light, setter,
          arg, brightness, value, fd, buffer, err, ret>>

\* the handles
handles == <<device, heap>>
\* the two snapshots
snapshots == <<g_notification, g_battery>>
\* the helpers' statics and the log
warnings == <<warned_int, warned_str, elog>>
\* a setter's frame, the helper's included
frame == <<setter, arg, brightness, value, fd, buffer, err>>

Init ==
    /\ pc = [t \in Threads |-> "idle"]
    /\ device = [n \in Names |-> NULL]
    /\ heap = 0
    /\ g_init = 0
    /\ g_lock = NoThread
    /\ g_notification = ZeroState
    /\ g_battery = ZeroState
    /\ warned_int = 0
    /\ warned_str = 0
    /\ elog = [p \in {LCD_FILE, RGB_CONTROL_FILE} |-> 0]
    /\ rgb_issued = [by |-> NULL, str |-> ""]
    /\ name = [t \in Threads |-> NULL]
    /\ set_light = [t \in Threads |-> NULL]
    /\ setter = [t \in Threads |-> NULL]
    /\ arg = [t \in Threads |-> ZeroState]
    /\ brightness = [t \in Threads |-> 0]
    /\ value = [t \in Threads |-> ""]
    /\ fd = [t \in Threads |-> NULL]
    /\ buffer = [t \in Threads |-> ""]
    /\ err = [t \in Threads |-> 0]
    /\ ret = 0

(* ----------------------------- open / close ---------------------------- *)

\* the strcmp chain with a last branch that falls back to a setter
setter_with_default(n) ==
    IF n = LIGHT_ID_BACKLIGHT THEN "set_light_backlight"
    ELSE IF n = LIGHT_ID_BATTERY THEN "set_light_battery"
    ELSE "set_light_notifications"

\* open_lights, lines 200-207: the strcmp chain; NULL stands for the
\* branch that returns -EINVAL
setter_for(n) ==
    IF n = LIGHT_ID_BACKLIGHT THEN "set_light_backlight"
    ELSE IF n = LIGHT_ID_BATTERY THEN "set_light_battery"
    ELSE IF n = LIGHT_ID_NOTIFICATIONS THEN "set_light_notifications"
    ELSE NULL

\* init_globals called on every open instead of through pthread_once
once_every_open == TRUE

\* pthread_once: whether this call is the one that runs the initializer
once_runs == g_init = 0

\* open_lights, lines 211-221: allocate, fill in, hand out, return 0
alloc_return(n, fn) ==
    /\ heap' = heap + 1
    /\ device' = [device EXCEPT ![n] = fn]
    /\ ret' = 0

\* open_lights up to pthread_once (line 209) and, when the initializer has
\* already run, to its end; a caller arriving while the initializer runs
\* waits in pthread_once
open_lights(t, n) ==
    /\ pc[t] = "idle"
    /\ IF setter_for(n) = NULL
       THEN /\ ret' = -EINVAL
            /\ UNCHANGED <<pc, handles, g_init, name, set_light>>
       ELSE /\ g_init # 1
            /\ IF once_runs
               THEN /\ g_init' = 1
                    /\ name' = [name EXCEPT ![t] = n]
                    /\ set_light' = [set_light EXCEPT ![t] = setter_for(n)]
                    /\ pc' = [pc EXCEPT ![t] = "init"]
                    /\ UNCHANGED <<handles, ret>>
               ELSE /\ alloc_return(n, setter_for(n))
                    /\ UNCHANGED <<pc, g_init, name, set_light>>
    /\ UNCHANGED <<g_lock, snapshots, warnings, rgb_issued, frame>>

\* init_globals: pthread_mutex_init leaves the mutex unlocked, whoever
\* held it
init_globals(t) ==
    /\ pc[t] = "init"
    /\ g_lock' = NoThread
    /\ g_init' = 2
    /\ pc' = [pc EXCEPT ![t] = "alloc"]
    /\ UNCHANGED <<handles, snapshots, warnings, rgb_issued, name,
                   set_light, frame, ret>>

\* the rest of open_lights for the caller that ran the initializer
open_lights_alloc(t) ==
    /\ pc[t] = "alloc"
    /\ alloc_return(name[t], set_light[t])
    /\ name' = [name EXCEPT ![t] = NULL]
    /\ set_light' = [set_light EXCEPT ![t] = NULL]
    /\ pc' = [pc EXCEPT ![t] = "idle"]
    /\ UNCHANGED <<g_init, g_lock, snapshots, warnings, rgb_issued, frame>>

\* close_lights(dev): free the handle if there is one, return 0
close_lights(t, n) ==
    /\ pc[t] = "idle"
    /\ IF device[n] # NULL
       THEN /\ heap' = heap - 1
            /\ device' = [device EXCEPT ![n] = NULL]
       ELSE UNCHANGED handles
    /\ ret' = 0
    /\ UNCHANGED <<pc, g_init, g_lock, snapshots, warnings, rgb_issued,
                   name, set_light, frame>>

(* ------------------------------ backlight ------------------------------ *)

\* set_light_backlight, lines 104-106: compute the brightness and take
\* the mutex (pthread_mutex_lock returns once the mutex is free)
set_light_backlight(t, state) ==
    /\ pc[t] = "idle"
    /\ g_lock = NoThread
    /\ g_lock' = t
    /\ setter' = [setter EXCEPT ![t] = "set_light_backlight"]
    /\ arg' = [arg EXCEPT ![t] = state]
    /\ brightness' = [brightness EXCEPT ![t] = rgb_to_brightness(state)]
    /\ pc' = [pc EXCEPT ![t] = "wi_open"]
    /\ UNCHANGED <<handles, g_init, snapshots, warnings, rgb_issued, name,
                   set_light, value, fd, buffer, err, ret>>

\* write_int, lines 52-53 and 59-65: open(path, O_RDWR); on failure log
\* once and return -errno
write_int_open(t) ==
    /\ pc[t] = "wi_open"
    /\ \/ /\ fd' = [fd EXCEPT ![t] = LCD_FILE]
          /\ pc' = [pc EXCEPT ![t] = "wi_write"]
          /\ UNCHANGED <<warned_int, elog, err>>
       \/ \E errno \in OpenErrnos :
          /\ IF warned_int = 0
             THEN /\ elog' = [elog EXCEPT ![LCD_FILE] = @ + 1]
                  /\ warned_int' = 1
             ELSE UNCHANGED <<elog, warned_int>>
          /\ err' = [err EXCEPT ![t] = -errno]
          /\ pc' = [pc EXCEPT ![t] = "unlock"]
          /\ UNCHANGED fd
    /\ UNCHANGED <<handles, g_init, g_lock, snapshots, warned_str,
                   rgb_issued, name, set_light, setter, arg, brightness, value,
                   buffer, ret>>

\* write_int, lines 54-58: sprintf "%d\n", write, close, return
write_int_write(t) ==
    /\ pc[t] = "wi_write"
    /\ buffer' = [buffer EXCEPT ![t] = FmtD(brightness[t]) \o "\n"]
    /\ \/ err' = [err EXCEPT ![t] = 0]
       \/ \E errno \in WriteErrnos : err' = [err EXCEPT ![t] = -errno]
    /\ fd' = [fd EXCEPT ![t] = NULL]
    /\ pc' = [pc EXCEPT ![t] = "unlock"]
    /\ UNCHANGED <<handles, g_init, g_lock, snapshots, warnings, rgb_issued,
                   name, set_light, setter, arg, brightness, value, ret>>

(* --------------------------- battery / notifications ------------------- *)

\* set_light_battery, lines 172-173: take the mutex
set_light_battery(t, state) ==
    /\ pc[t] = "idle"
    /\ g_lock = NoThread
    /\ g_lock' = t
    /\ setter' = [setter EXCEPT ![t] = "set_light_battery"]
    /\ arg' = [arg EXCEPT ![t] = state]
    /\ pc' = [pc EXCEPT ![t] = "battery"]
    /\ UNCHANGED <<handles, g_init, snapshots, warnings, rgb_issued, name,
                   set_light, brightness, value, fd, buffer, err, ret>>

\* set_light_battery arbitrating before it stores the snapshot
battery_arbitrate_then_store(t) ==
    /\ pc[t] = "battery"
    /\ g_battery' = arg[t]
    /\ value' = [value EXCEPT ![t] =
                    handle_speaker_battery_locked(g_notification, g_battery)]
    /\ pc' = [pc EXCEPT ![t] = "ws_open"]
    /\ UNCHANGED <<handles, g_init, g_lock, g_notification, warnings,
                   rgb_issued, name, set_light, setter, arg, brightness, fd, buffer,
                   err, ret>>

\* set_light_battery, lines 174-175: store the snapshot, then arbitrate
\* up to the call of write_str
battery_locked(t) ==
    /\ pc[t] = "battery"
    /\ g_battery' = arg[t]
    /\ value' = [value EXCEPT ![t] =
                    handle_speaker_battery_locked(g_notification, g_battery')]
    /\ pc' = [pc EXCEPT ![t] = "ws_open"]
    /\ UNCHANGED <<handles, g_init, g_lock, g_notification, warnings,
                   rgb_issued, name, set_light, setter, arg, brightness, fd, buffer,
                   err, ret>>

\* set_light_notifications, line 162: take the mutex
set_light_notifications(t, state) ==
    /\ pc[t] = "idle"
    /\ g_lock = NoThread
    /\ g_lock' = t
    /\ setter' = [setter EXCEPT ![t] = "set_light_notifications"]
    /\ arg' = [arg EXCEPT ![t] = state]
    /\ pc' = [pc EXCEPT ![t] = "notifications"]
    /\ UNCHANGED <<handles, g_init, snapshots, warnings, rgb_issued, name,
                   set_light, brightness, value, fd, buffer, err, ret>>

\* set_light_notifications storing into the battery snapshot
notifications_store_battery(t) ==
    /\ pc[t] = "notifications"
    /\ g_battery' = arg[t]
    /\ value' = [value EXCEPT ![t] =
                    handle_speaker_battery_locked(g_notification, g_battery')]
    /\ pc' = [pc EXCEPT ![t] = "ws_open"]
    /\ UNCHANGED <<handles, g_init, g_lock, g_notification, warnings,
                   rgb_issued, name, set_light, setter, arg, brightness, fd, buffer,
                   err, ret>>

\* set_light_notifications, lines 163-164: store the snapshot, then
\* arbitrate up to the call of write_str
notifications_locked(t) ==
    /\ pc[t] = "notifications"
    /\ g_notification' = arg[t]
    /\ value' = [value EXCEPT ![t] =
                    handle_speaker_battery_locked(g_notification', g_battery)]
    /\ pc' = [pc EXCEPT ![t] = "ws_open"]
    /\ UNCHANGED <<handles, g_init, g_lock, g_battery, warnings, rgb_issued,
                   name, set_light, setter, arg, brightness, fd, buffer, err, ret>>

\* write_str never setting already_warned
write_str_open_never_warned(t) ==
    /\ pc[t] = "ws_open"
    /\ rgb_issued' = [by |-> setter[t], str |-> value[t]]
    /\ \/ /\ fd' = [fd EXCEPT ![t] = RGB_CONTROL_FILE]
          /\ pc' = [pc EXCEPT ![t] = "ws_write"]
          /\ UNCHANGED <<warned_str, elog, err>>
       \/ \E errno \in OpenErrnos :
          /\ IF warned_str = 0
             THEN /\ elog' = [elog EXCEPT ![RGB_CONTROL_FILE] = @ + 1]
                  /\ UNCHANGED warned_str
             ELSE UNCHANGED <<elog, warned_str>>
          /\ err' = [err EXCEPT ![t] = -errno]
          /\ pc' = [pc EXCEPT ![t] = "unlock"]
          /\ UNCHANGED fd
    /\ UNCHANGED <<handles, g_init, g_lock, snapshots, warned_int, name,
                   set_light, setter, arg, brightness, value, buffer, ret>>

\* write_str, lines 73-74 and 80-86: open(path, O_RDWR); on failure log
\* once and return -errno
write_str_open(t) ==
    /\ pc[t] = "ws_open"
    /\ rgb_issued' = [by |-> setter[t], str |-> value[t]]
    /\ \/ /\ fd' = [fd EXCEPT ![t] = RGB_CONTROL_FILE]
          /\ pc' = [pc EXCEPT ![t] = "ws_write"]
          /\ UNCHANGED <<warned_str, elog, err>>
       \/ \E errno \in OpenErrnos :
          /\ IF warned_str = 0
             THEN /\ elog' = [elog EXCEPT ![RGB_CONTROL_FILE] = @ + 1]
                  /\ warned_str' = 1
             ELSE UNCHANGED <<elog, warned_str>>
          /\ err' = [err EXCEPT ![t] = -errno]
          /\ pc' = [pc EXCEPT ![t] = "unlock"]
          /\ UNCHANGED fd
    /\ UNCHANGED <<handles, g_init, g_lock, snapshots, warned_int, name,
                   set_light, setter, arg, brightness, value, buffer, ret>>

\* write_str, lines 75-79: sprintf "%s\n", write, close, return
write_str_write(t) ==
    /\ pc[t] = "ws_write"
    /\ buffer' = [buffer EXCEPT ![t] = value[t] \o "\n"]
    /\ \/ err' = [err EXCEPT ![t] = 0]
       \/ \E errno \in WriteErrnos : err' = [err EXCEPT ![t] = -errno]
    /\ fd' = [fd EXCEPT ![t] = NULL]
    /\ pc' = [pc EXCEPT ![t] = "unlock"]
    /\ UNCHANGED <<handles, g_init, g_lock, snapshots, warnings, rgb_issued,
                   name, set_light, setter, arg, brightness, value, ret>>

\* every setter returning 0, set_light_backlight too
always_zero(t) == 0

\* what a setter returns: set_light_backlight its err (line 109), the two
\* LED setters 0 (lines 142, 166, 177), write_str's result being dropped
setter_result(t) ==
    IF setter[t] = "set_light_backlight" THEN err[t] ELSE 0

\* pthread_mutex_unlock and return, lines 108-109, 165-166, 176-177
unlock_return(t) ==
    /\ pc[t] = "unlock"
    /\ g_lock' = NoThread
    /\ ret' = setter_result(t)
    /\ setter' = [setter EXCEPT ![t] = NULL]
    /\ arg' = [arg EXCEPT ![t] = ZeroState]
    /\ brightness' = [brightness EXCEPT ![t] = 0]
    /\ value' = [value EXCEPT ![t] = ""]
    /\ buffer' = [buffer EXCEPT ![t] = ""]
    /\ err' = [err EXCEPT ![t] = 0]
    /\ pc' = [pc EXCEPT ![t] = "idle"]
    /\ UNCHANGED <<handles, g_init, snapshots, warnings, rgb_issued, name,
                   set_light, fd>>

(* --------------------------- specification ----------------------------- *)

\* whether the host holds a handle bound to a setter
bound(s) == \E n \in Names : device[n] = s

\* threads inside a setter reached through a handle bound to it
inside(s) == {t \in Threads : setter[t] = s}

\* the host: it keeps one handle per light name, opens a name whose slot
\* is empty, sets a light from any thread through a handle it holds, and
\* closes a handle no thread is using
Next ==
    \E t \in Threads :
        \/ \E n \in Names :
              /\ device[n] = NULL
              /\ \A u \in Threads : name[u] # n
              /\ open_lights(t, n)
        \/ init_globals(t)
        \/ open_lights_alloc(t)
        \/ \E n \in Names :
              /\ device[n] # NULL => inside(device[n]) = {}
              /\ close_lights(t, n)
        \/ \E state \in BacklightStates :
              /\ bound("set_light_backlight")
              /\ set_light_backlight(t, state)
        \/ write_int_open(t)
        \/ write_int_write(t)
        \/ \E state \in LedStates :
              /\ bound("set_light_battery")
              /\ set_light_battery(t, state)
        \/ battery_locked(t)
        \/ \E state \in LedStates :
              /\ bound("set_light_notifications")
              /\ set_light_notifications(t, state)
        \/ notifications_locked(t)
        \/ write_str_open(t)
        \/ write_str_write(t)
        \/ unlock_return(t)

Spec == Init /\ [][Next]_vars

(* ------------------------- vocabulary of the claims -------------------- *)

\* a state is lit when one of its colour's RGB channels is non-zero
Lit(state) ==
    state.color.r # 0 \/ state.color.g # 0 \/ state.color.b # 0

LedSetters == {"set_light_battery", "set_light_notifications"}

\* a thread between pthread_mutex_lock and pthread_mutex_unlock
InCritical(t) ==
    pc[t] \in {"wi_open", "wi_write", "battery", "notifications",
               "ws_open", "ws_write", "unlock"}

\* a thread of an LED setter whose arbitration has chosen its pattern
Arbitrated(t) ==
    /\ setter[t] \in LedSetters
    /\ pc[t] \in {"ws_open", "ws_write", "unlock"}

\* a thread of a setter whose write helper has returned from a failed open
OpenFailed(t) ==
    pc[t] = "unlock" /\ err[t] < 0 /\ buffer[t] = ""

\* the pattern expected of a lit notification state
NotificationPattern(state) ==
    IF state.flashMode = 1
    THEN "ffffff " \o ToString(state.flashOnMS) \o " "
             \o ToString(state.flashOffMS) \o " 300 300"
    ELSE "ffffff 0 0 0 0"

\* the pattern expected of the two snapshots
ExpectedPattern(notification, battery) ==
    IF Lit(notification) THEN NotificationPattern(notification)
    ELSE IF Lit(battery) THEN "FFFFFF 1 0 0 0"
    ELSE "000000 0 0 0 0"

(* -------------------------------- claims ------------------------------- *)

\* C1: whenever the arbitration has run with both the notification and the
\* battery snapshot lit, the string it hands to write_str is the pattern
\* derived from the notification state and not the fixed battery pattern,
\* whichever setter triggered it.
C1_NotificationPriority ==
    \A t \in Threads :
        (Arbitrated(t) /\ Lit(g_notification) /\ Lit(g_battery))
            => /\ value[t] = NotificationPattern(g_notification)
               /\ value[t] # "FFFFFF 1 0 0 0"

\* the battery setter has arbitrated and opened the control file while
\* both snapshots are lit
C1_Witness ==
    \E t \in Threads :
        /\ pc[t] = "ws_write"
        /\ setter[t] = "set_light_battery"
        /\ Lit(g_notification)
        /\ Lit(g_battery)

\* C2 (state part): at most one thread is between lock and unlock, it is
\* the holder of g_lock, and only it holds a descriptor on a control file.
C2_OneInside ==
    /\ Cardinality({t \in Threads : InCritical(t)}) <= 1
    /\ \A t \in Threads : InCritical(t) => g_lock = t
    /\ \A t \in Threads : fd[t] # NULL => g_lock = t

\* C2 (step part): the snapshots, the issued pattern, the helpers' statics
\* and the descriptors change only in steps of the thread holding g_lock.
C2_OnlyHolderWrites ==
    (~ UNCHANGED <<snapshots, rgb_issued, warnings, fd, buffer>>)
        => /\ g_lock # NoThread
           /\ pc'[g_lock] # pc[g_lock]
           /\ \A u \in Threads \ {g_lock} : pc'[u] = pc[u]

\* C2: concurrent setter calls are serialized by g_lock: a call's store,
\* arbitration and open/write/close form one unit no other call enters.
C2_Serialized == []C2_OneInside /\ [][C2_OnlyHolderWrites]_vars

\* a setter is writing to the RGB control file while the host holds handles
\* for all three lights and both LED setters have stored a state before
C2_Witness ==
    /\ \E t \in Threads : pc[t] = "ws_write" /\ fd[t] = RGB_CONTROL_FILE
    /\ \A n \in {"backlight", "battery", "notifications"} : device[n] # NULL
    /\ g_notification # ZeroState
    /\ g_battery # ZeroState
    /\ rgb_issued.by # NULL

\* C3 as claimed: a setter whose control-file open failed returns the
\* negated error code to its caller, whichever setter it is.
C3_AllSettersPropagate ==
    [][\A t \in Threads :
          (OpenFailed(t) /\ pc'[t] = "idle") => ret' = err[t]]_vars

\* C3 as the code has it: a failed open makes the write helper return the
\* negated error code at once, without a second open; set_light_backlight
\* returns that code to its caller, set_light_battery and
\* set_light_notifications drop it and return 0.
C3_BacklightPropagates ==
    [][\A t \in Threads :
          /\ (pc[t] \in {"wi_open", "ws_open"} /\ pc'[t] # pc[t]
                  /\ fd'[t] = NULL)
                => /\ pc'[t] = "unlock"
                   /\ err'[t] \in {-2, -13}
                   /\ buffer'[t] = ""
          /\ (OpenFailed(t) /\ pc'[t] = "idle")
                => ret' = IF setter[t] = "set_light_backlight"
                          THEN err[t] ELSE 0]_vars

\* the RGB control file failed to open under set_light_battery, after a
\* set_light_backlight call returned the error of its own failed open
C3_Witness ==
    \E t \in Threads :
        /\ OpenFailed(t)
        /\ setter[t] = "set_light_battery"
        /\ err[t] = -13
        /\ ret = -2

\* C4 (state part): no handle is ever held for a name other than the three
\* the module knows, and the heap holds exactly the handles handed out.
C4_NoHandle ==
    /\ \A n \in Names \ {"backlight", "battery", "notifications"} :
          device[n] = NULL
    /\ heap = Cardinality({n \in Names : device[n] # NULL})

\* C4 (step part): open_lights with such a name returns -EINVAL and leaves
\* the device outputs, the heap and the one-time initialization alone.
C4_Rejects ==
    \A t \in Threads :
        \A n \in Names \ {"backlight", "battery", "notifications"} :
            open_lights(t, n)
                => /\ ret' = -22
                   /\ UNCHANGED <<device, heap, g_init, g_lock, pc>>

\* C4: opening an unrecognized name fails with -EINVAL, hands out no
\* handle, allocates nothing and does not run the one-time initialization.
C4_UnknownName == []C4_NoHandle /\ [][C4_Rejects]_vars

\* an open has just been refused while the host holds a handle and the
\* initialization has been run by an earlier open
C4_Witness ==
    /\ ret = -22
    /\ heap > 0
    /\ g_init = 2

\* C5 as claimed: 0xFFFFFFFF gives 255, 0x00000000 gives 0 and 0x00FF0000
\* gives 77.
C5_RedIs77 ==
    \A t \in Threads :
        (setter[t] = "set_light_backlight" /\ InCritical(t))
            => /\ arg[t].color = ARGB(255, 255, 255, 255)
                    => brightness[t] = 255
               /\ arg[t].color = ARGB(0, 0, 0, 0) => brightness[t] = 0
               /\ arg[t].color = ARGB(0, 255, 0, 0) => brightness[t] = 77

\* C5 as the code has it: 0xFFFFFFFF gives 255, 0x00000000 gives 0 and
\* 0x00FF0000 gives 76 (19635 >> 8), and that is the number written.
C5_RedIs76 ==
    \A t \in Threads :
        (setter[t] = "set_light_backlight" /\ InCritical(t))
            => /\ arg[t].color = ARGB(255, 255, 255, 255)
                    => brightness[t] = 255
               /\ arg[t].color = ARGB(0, 0, 0, 0) => brightness[t] = 0
               /\ arg[t].color = ARGB(0, 255, 0, 0) => brightness[t] = 76
               /\ (pc[t] = "unlock" /\ buffer[t] # "")
                    => buffer[t] = ToString(brightness[t]) \o "\n"

\* set_light_backlight has written the brightness of pure red
C5_Witness ==
    \E t \in Threads :
        /\ pc[t] = "unlock"
        /\ arg[t].color = ARGB(0, 255, 0, 0)
        /\ buffer[t] = "76\n"
        /\ err[t] = 0

\* C6 (store step): a set battery call whose state is the one the previous
\* RGB write was issued for, by set battery too, chooses the string that
\* write was issued with.
C6_SameChoice ==
    \A t \in Threads :
        (/\ pc[t] = "battery"
         /\ pc'[t] = "ws_open"
         /\ rgb_issued.by = "set_light_battery"
         /\ arg[t] = g_battery)
            => value'[t] = rgb_issued.str

\* C6 (write steps): the string chosen is the one passed to write_str and,
\* with the newline, the one handed to write(2).
C6_ChoiceWritten ==
    \A t \in Threads :
        /\ (pc[t] = "ws_open" /\ pc'[t] # "ws_open")
              => rgb_issued' = [by |-> setter[t], str |-> value[t]]
        /\ (pc[t] = "ws_write" /\ pc'[t] = "unlock")
              => buffer'[t] = rgb_issued.str \o "\n"

\* C6: two set battery calls in a row with an identical state issue the
\* identical string to the RGB control file.
C6_BatteryIdempotent == [][C6_SameChoice /\ C6_ChoiceWritten]_vars

\* a second set battery call with the lit state of the first holds the
\* lock, the first one's battery pattern being the last string issued
C6_Witness ==
    \E t \in Threads :
        /\ pc[t] = "battery"
        /\ arg[t] = g_battery
        /\ Lit(arg[t])
        /\ rgb_issued = [by |-> "set_light_battery", str |-> "FFFFFF 1 0 0 0"]

\* C7: a colour whose RGB channels are all zero is not lit, whatever its
\* alpha; and an arbitration that finds neither snapshot lit chooses
\* exactly the all-off pattern, whatever the flash fields.
C7_AllOff ==
    /\ \A state \in {g_notification, g_battery} \cup {arg[t] : t \in Threads} :
          (~ Lit(state)) => is_lit(state) = 0
    /\ \A t \in Threads :
          (Arbitrated(t) /\ ~ Lit(g_notification) /\ ~ Lit(g_battery))
              => value[t] = "000000 0 0 0 0"

\* the arbitration has run and its pattern is being written while the
\* notification snapshot is alpha-only with a timed flash and the battery
\* snapshot is unlit
C7_Witness ==
    \E t \in Threads :
        /\ pc[t] = "ws_write"
        /\ g_notification.color = ARGB(255, 0, 0, 0)
        /\ g_notification.flashMode = 1
        /\ ~ Lit(g_battery)
        /\ value[t] = "000000 0 0 0 0"

\* C8 (state part): each control path has at most one error line in the
\* log.
C8_AtMostOne ==
    \A p \in {LCD_FILE, RGB_CONTROL_FILE} : elog[p] <= 1

\* C8 (step part): a failed open leaves exactly one line for its path in
\* the log (the first failure adds it, a later one adds nothing), leaves
\* the other path's count alone and makes the helper return a negative code.
C8_FailedOpen ==
    \A t \in Threads :
        /\ (pc[t] = "wi_open" /\ pc'[t] = "unlock")
              => /\ elog' = [elog EXCEPT ![LCD_FILE] = 1]
                 /\ err'[t] < 0
        /\ (pc[t] = "ws_open" /\ pc'[t] = "unlock")
              => /\ elog' = [elog EXCEPT ![RGB_CONTROL_FILE] = 1]
                 /\ err'[t] < 0

\* C8: open failures are logged once per control path, the first time; a
\* later failure logs nothing and still returns an error code.
C8_LoggedOnce == []C8_AtMostOne /\ [][C8_FailedOpen]_vars

\* the backlight node fails to open a second time (the first failure's
\* code was returned by an earlier call), with one line in the log
C8_Witness ==
    \E t \in Threads :
        /\ OpenFailed(t)
        /\ setter[t] = "set_light_backlight"
        /\ err[t] = -13
        /\ ret = -2
        /\ elog[LCD_FILE] = 1

\* C9: with a lit notification snapshot the pattern is white (printed
\* ffffff) whatever channel is set, then on/off as given and ramps of 300
\* for a timed flash, and four zeros for any other flash mode; it is what
\* write_str is passed and what write(2) is handed.
C9_BlinkPattern ==
    \A t \in Threads :
        (Arbitrated(t) /\ Lit(g_notification))
            => /\ value[t] =
                    IF g_notification.flashMode = 1
                    THEN "ffffff " \o ToString(g_notification.flashOnMS)
                            \o " " \o ToString(g_notification.flashOffMS)
                            \o " 300 300"
                    ELSE "ffffff 0 0 0 0"
               /\ pc[t] # "ws_open" => rgb_issued.str = value[t]
               /\ buffer[t] \in {"", value[t] \o "\n"}

\* the pattern of a lit red notification without flash, its durations set,
\* has been handed to write(2)
C9_Witness ==
    \E t \in Threads :
        /\ pc[t] = "unlock"
        /\ g_notification.color = ARGB(0, 255, 0, 0)
        /\ g_notification.flashMode = 0
        /\ g_notification.flashOnMS = 500
        /\ buffer[t] = "ffffff 0 0 0 0\n"

\* C10 (state part): once a pattern has been issued, whenever g_lock is
\* free the last pattern issued is the one the arbitration gives for the
\* snapshots as they are.
C10_Quiescent ==
    (g_lock = NoThread /\ rgb_issued.by # NULL)
        => rgb_issued.str = ExpectedPattern(g_notification, g_battery)

\* C10 (step part): a snapshot changes only to the state its own setter
\* was called with, and set backlight changes neither snapshot and issues
\* nothing to the RGB control file.
C10_Stores ==
    /\ g_notification' # g_notification
          => \E t \in Threads :
                /\ setter[t] = "set_light_notifications"
                /\ g_lock = t
                /\ g_notification' = arg[t]
    /\ g_battery' # g_battery
          => \E t \in Threads :
                /\ setter[t] = "set_light_battery"
                /\ g_lock = t
                /\ g_battery' = arg[t]
    /\ \A t \in Threads :
          (setter[t] = "set_light_backlight"
                  \/ setter'[t] = "set_light_backlight")
              => UNCHANGED <<snapshots, rgb_issued>>

\* C10: at rest the LED shows what the arbitration makes of the states
\* last passed to set notifications and set battery.
C10_LedConsistent == []C10_Quiescent /\ [][C10_Stores]_vars

\* at rest after a set notifications call that turned the notification off
\* and so issued the battery pattern, a backlight call having failed since
C10_Witness ==
    /\ g_lock = NoThread
    /\ rgb_issued = [by |-> "set_light_notifications", str |-> "FFFFFF 1 0 0 0"]
    /\ ret = -13

====
